---- MODULE Spec2Model ----
(***************************************************************************)
(* The Azure Blob Storage chat agent of blob_agent.py: the startup checks  *)
(* of main(), its chat loop over a ChatHistory, and the two tools of       *)
(* BlobStoragePlugin (list_blobs, read_csv_blob).  The tool-call rounds    *)
(* that run inside the agent framework's get_chat_message_content are      *)
(* modelled from section 4.4 of the design specification.                  *)
(***************************************************************************)
EXTENDS Integers, Sequences, FiniteSets, TLC

VARIABLES
    env,        \* the process environment read by os.getenv
    container,  \* the listing of the storage container
    pc,         \* where the program is
    history,    \* the ChatHistory of main()
    printed,    \* the lines main() has printed
    requests,   \* requests sent to the model provider
    linesRead,  \* lines taken from input()
    user_input, \* the line input() returned last
    calls,      \* the tool invocations requested in the current round
    base,       \* length of the history when the current round started
    lastCall,   \* the most recent direct invocation of a tool
    exitCode    \* exit status of the process, once it has ended

vars == <<env, container, pc, history, printed, requests, linesRead,
          user_input, calls, base, lastCall, exitCode>>

(***************************************************************************)
(* Bounds of the model.                                                    *)
(***************************************************************************)
\* entries of the transcript up to which a user turn or a tool round may start
MaxHistory == 4

(***************************************************************************)
(* Text helpers (Python str operations used by the program).               *)
(***************************************************************************)
LowerChar(c) ==
    CASE c = "A" -> "a" [] c = "B" -> "b" [] c = "C" -> "c" [] c = "D" -> "d"
      [] c = "E" -> "e" [] c = "F" -> "f" [] c = "G" -> "g" [] c = "H" -> "h"
      [] c = "I" -> "i" [] c = "J" -> "j" [] c = "K" -> "k" [] c = "L" -> "l"
      [] c = "M" -> "m" [] c = "N" -> "n" [] c = "O" -> "o" [] c = "P" -> "p"
      [] c = "Q" -> "q" [] c = "R" -> "r" [] c = "S" -> "s" [] c = "T" -> "t"
      [] c = "U" -> "u" [] c = "V" -> "v" [] c = "W" -> "w" [] c = "X" -> "x"
      [] c = "Y" -> "y" [] c = "Z" -> "z" [] OTHER -> c

RECURSIVE Lower(_)
Lower(s) ==
    IF Len(s) = 0 THEN ""
    ELSE LowerChar(SubSeq(s, 1, 1)) \o Lower(SubSeq(s, 2, Len(s)))

RECURSIVE Join(_, _)
Join(sep, names) ==
    IF Len(names) = 0 THEN ""
    ELSE IF Len(names) = 1 THEN names[1]
    ELSE names[1] \o sep \o Join(sep, Tail(names))

Range(f) == {f[i] : i \in DOMAIN f}

(***************************************************************************)
(* Process environment (.env file and os.environ).  A value is abstracted  *)
(* to what os.getenv and all([...]) distinguish: unset (None), the empty   *)
(* string, or a non-empty string.                                          *)
(***************************************************************************)
OpenAIVars == {"AZURE_OPENAI_DEPLOYMENT_NAME", "AZURE_OPENAI_ENDPOINT",
               "AZURE_OPENAI_API_KEY"}

StorageVars == {"AZURE_STORAGE_ACCOUNT_NAME", "AZURE_STORAGE_ACCOUNT_KEY",
                "AZURE_STORAGE_CONTAINER_NAME"}

\* The api version is not read from the environment: main() passes the
\* literal "2025-01-01-preview".  The variable is part of the environment
\* the program starts in all the same.
EnvVars == OpenAIVars \cup StorageVars \cup {"AZURE_OPENAI_API_VERSION"}

EnvValues == {"unset", "empty", "set"}

Truthy(v) == v = "set"

\* all([deployment_name, endpoint, api_key])
OpenAIConfigured(e) == \A v \in OpenAIVars : Truthy(e[v])

\* the storage check leaving the account key out
StorageConfigured_IgnoresKey(e) ==
    \A v \in StorageVars \ {"AZURE_STORAGE_ACCOUNT_KEY"} : Truthy(e[v])

\* all([self.account_name, self.account_key, self.container_name])
StorageConfigured(e) == \A v \in StorageVars : Truthy(e[v])

\* value of AZURE_STORAGE_CONTAINER_NAME once the plugin is constructed
ContainerName == "data"

(***************************************************************************)
(* Storage backend and the two tools.                                      *)
(***************************************************************************)
\* listings of the container, in the order the backend lists them
Containers == { <<>>, <<"a.csv">>, <<"a.csv", "b.csv">>, <<"b.csv", "a.csv">>,
                <<"a.csv", "b.csv", "c.csv">>, <<"No blobs found.">> }

\* blob names a caller may pass to read_csv_blob
BlobNames == {"a.csv", "b.csv", "c.csv", "missing.csv", "No blobs found."}

\* the stage of one read_csv_blob call that raises, if any
ReadOutcomes == {"exists_raises", "download_raises", "parse_raises",
                 "to_markdown_raises", "ok"}

\* the stage of one list_blobs call that raises, if any
ListOutcomes == {"list_raises", "ok"}

\* str(e) of the exception raised at a stage
ExceptionText(o) ==
    CASE o = "parse_raises" -> "Error tokenizing data"
      [] o = "to_markdown_raises" -> "Missing optional dependency 'tabulate'"
      [] OTHER -> "Connection timed out"

\* df.head(10).to_markdown(): a markdown table, abstracted to its frame
MarkdownPreview(blob_name) == "| " \o blob_name \o " |"

Returned(text, ops) == [kind |-> "text", text |-> text, ops |-> ops]

Raised(text, ops) == [kind |-> "raised", text |-> text, ops |-> ops]

\* read_csv_blob whose except clause returns str(e) without a prefix
read_csv_blob_BareMessage(blob_name, cont, o) ==
    IF o = "exists_raises"
    THEN Returned(ExceptionText(o), <<"exists">>)
    ELSE IF blob_name \notin Range(cont)
    THEN Returned("Error: Blob '" \o blob_name
                    \o "' does not exist in container '" \o ContainerName \o "'.",
                  <<"exists">>)
    ELSE IF o = "download_raises"
    THEN Returned(ExceptionText(o), <<"exists", "download">>)
    ELSE IF o = "parse_raises"
    THEN Returned(ExceptionText(o), <<"exists", "download", "read_csv">>)
    ELSE IF o = "to_markdown_raises"
    THEN Returned(ExceptionText(o),
                  <<"exists", "download", "read_csv", "to_markdown">>)
    ELSE Returned(MarkdownPreview(blob_name),
                  <<"exists", "download", "read_csv", "to_markdown">>)

\* read_csv_blob that downloads without asking whether the blob exists
read_csv_blob_DownloadFirst(blob_name, cont, o) ==
    IF blob_name \notin Range(cont) \/ o \in {"exists_raises", "download_raises"}
    THEN Returned("Error reading blob: " \o ExceptionText(o), <<"download">>)
    ELSE IF o = "parse_raises"
    THEN Returned("Error reading blob: " \o ExceptionText(o),
                  <<"download", "read_csv">>)
    ELSE IF o = "to_markdown_raises"
    THEN Returned("Error reading blob: " \o ExceptionText(o),
                  <<"download", "read_csv", "to_markdown">>)
    ELSE Returned(MarkdownPreview(blob_name),
                  <<"download", "read_csv", "to_markdown">>)

read_csv_blob(blob_name, cont, o) ==
    IF o = "exists_raises"
    THEN Returned("Error reading blob: " \o ExceptionText(o), <<"exists">>)
    ELSE IF blob_name \notin Range(cont)
    THEN Returned("Error: Blob '" \o blob_name
                    \o "' does not exist in container '" \o ContainerName \o "'.",
                  <<"exists">>)
    ELSE IF o = "download_raises"
    THEN Returned("Error reading blob: " \o ExceptionText(o),
                  <<"exists", "download">>)
    ELSE IF o = "parse_raises"
    THEN Returned("Error reading blob: " \o ExceptionText(o),
                  <<"exists", "download", "read_csv">>)
    ELSE IF o = "to_markdown_raises"
    THEN Returned("Error reading blob: " \o ExceptionText(o),
                  <<"exists", "download", "read_csv", "to_markdown">>)
    ELSE Returned(MarkdownPreview(blob_name),
                  <<"exists", "download", "read_csv", "to_markdown">>)

\* list_blobs without its try/except: the listing failure propagates
list_blobs_Uncaught(cont, o) ==
    IF o = "list_raises"
    THEN Raised(ExceptionText(o), <<"list">>)
    ELSE Returned(IF Len(cont) > 0 THEN Join(", ", cont) ELSE "No blobs found.",
                  <<"list">>)

\* list_blobs joining with "," instead of ", "
list_blobs_CommaOnly(cont, o) ==
    IF o = "list_raises"
    THEN Returned("Error listing blobs: " \o ExceptionText(o), <<"list">>)
    ELSE Returned(IF Len(cont) > 0 THEN Join(",", cont) ELSE "No blobs found.",
                  <<"list">>)

list_blobs(cont, o) ==
    IF o = "list_raises"
    THEN Returned("Error listing blobs: " \o ExceptionText(o), <<"list">>)
    ELSE Returned(IF Len(cont) > 0 THEN Join(", ", cont) ELSE "No blobs found.",
                  <<"list">>)

(***************************************************************************)
(* Dialogue transcript (ChatHistory) and the chat loop of main().          *)
(***************************************************************************)
Entry(role, name, text) == [role |-> role, name |-> name, text |-> text]

SystemPrompt == "You are an AI assistant that can read data from Azure Blob Storage using the BlobTools plugin."

\* lines typed at the "User: " prompt
Lines == {"exit", "EXIT", "Quit", "exits", "list the files"}

\* final answers of the model provider
Answers == {"done"}

\* str(e) of a failed request to the model provider
ProviderErrors == {"connection error"}

\* tool invocations the provider may request (the advertised functions)
ToolRequests == { [tool |-> "list_blobs", arg |-> ""],
                  [tool |-> "read_csv_blob", arg |-> "a.csv"] }

CallLists(n) == UNION { [1..k -> ToolRequests] : k \in 1..n }

\* the comparison without .lower()
IsExitCommand_CaseSensitive(line) == line \in {"exit", "quit"}

\* user_input.lower() in ["exit", "quit"]
IsExitCommand(line) == Lower(line) \in {"exit", "quit"}

NoCall == [tool |-> "none", arg |-> "", outcome |-> "ok", failed |-> FALSE,
           ret |-> Returned("", <<>>)]

Init ==
    /\ env \in [EnvVars -> EnvValues]
    /\ container \in Containers
    /\ pc = "start"
    /\ history = <<>>
    /\ printed = <<>>
    /\ requests = 0
    /\ linesRead = 0
    /\ user_input = ""
    /\ calls = <<>>
    /\ base = 0
    /\ lastCall = NoCall
    /\ exitCode = "running"

\* main(), from its first line to the banner printed before the chat loop
Startup ==
    /\ pc = "start"
    /\ IF ~OpenAIConfigured(env)
       THEN /\ printed' = <<"Missing Azure OpenAI credentials in .env file. Please configure them.">>
            /\ pc' = "ended"
            /\ exitCode' = "0"
            /\ UNCHANGED history
       ELSE IF ~StorageConfigured(env)
       THEN /\ printed' = <<"Failed to initialize BlobStoragePlugin: Azure Blob Storage credentials are missing in .env file.">>
            /\ pc' = "ended"
            /\ exitCode' = "0"
            /\ UNCHANGED history
       ELSE /\ history' = <<Entry("system", "", SystemPrompt)>>
            /\ printed' = <<"--- Azure Blob Storage Agent (Semantic Kernel) ---">>
            /\ pc' = "prompt"
            /\ UNCHANGED exitCode
    /\ UNCHANGED <<env, container, requests, linesRead, user_input, calls, base,
                   lastCall>>

\* input() returns "exit"/"quit" in any case: break, main() returns
ExitCommand(line) ==
    /\ pc = "prompt"
    /\ IsExitCommand(line)
    /\ linesRead' = linesRead + 1
    /\ user_input' = line
    /\ pc' = "done"
    /\ exitCode' = "0"
    /\ UNCHANGED <<env, container, history, printed, requests, calls, base, lastCall>>

\* input() returns any other line: add_user_message, then the request is
\* sent (get_chat_message_content is awaited)
UserTurn(line) ==
    /\ pc = "prompt"
    /\ ~IsExitCommand(line)
    /\ Len(history) < MaxHistory
    /\ linesRead' = linesRead + 1
    /\ user_input' = line
    /\ history' = Append(history, Entry("user", "", line))
    /\ requests' = requests + 1
    /\ calls' = <<>>
    /\ base' = Len(history')
    /\ pc' = "AwaitingModel"
    /\ UNCHANGED <<env, container, printed, lastCall, exitCode>>

\* input() raises EOFError: it is outside the try block, main() dies
InputClosed ==
    /\ pc = "prompt"
    /\ pc' = "crashed"
    /\ exitCode' = "1"
    /\ UNCHANGED <<env, container, history, printed, requests, linesRead,
                   user_input, calls, base, lastCall>>

\* the answer overwriting the last entry instead of being appended
ProviderFinal_Overwrites(text) ==
    /\ pc = "AwaitingModel"
    /\ printed' = Append(printed, "Agent: " \o text)
    /\ history' = [history EXCEPT ![Len(history)] = Entry("assistant", "", text)]
    /\ calls' = <<>>
    /\ pc' = "prompt"
    /\ UNCHANGED <<env, container, requests, linesRead, user_input, base, lastCall,
                   exitCode>>

\* the answer appended twice (by the driver and again by main)
ProviderFinal_AppendsTwice(text) ==
    /\ pc = "AwaitingModel"
    /\ printed' = Append(printed, "Agent: " \o text)
    /\ history' = history \o <<Entry("assistant", "", text),
                               Entry("assistant", "", text)>>
    /\ calls' = <<>>
    /\ pc' = "prompt"
    /\ UNCHANGED <<env, container, requests, linesRead, user_input, base, lastCall,
                   exitCode>>

\* the awaited call returns a message: print it, history.add_message(result)
ProviderFinal(text) ==
    /\ pc = "AwaitingModel"
    /\ printed' = Append(printed, "Agent: " \o text)
    /\ history' = Append(history, Entry("assistant", "", text))
    /\ calls' = <<>>
    /\ pc' = "prompt"
    /\ UNCHANGED <<env, container, requests, linesRead, user_input, base, lastCall,
                   exitCode>>

\* the except clause rolling the failed turn's last entry back
ProviderFails_DropsLastEntry(msg) ==
    /\ pc = "AwaitingModel"
    /\ printed' = Append(printed, "Error during chat: " \o msg)
    /\ history' = SubSeq(history, 1, Len(history) - 1)
    /\ calls' = <<>>
    /\ pc' = "prompt"
    /\ UNCHANGED <<env, container, requests, linesRead, user_input, base,
                   lastCall, exitCode>>

\* the awaited call raises: except Exception prints one message
ProviderFails(msg) ==
    /\ pc = "AwaitingModel"
    /\ printed' = Append(printed, "Error during chat: " \o msg)
    /\ calls' = <<>>
    /\ pc' = "prompt"
    /\ UNCHANGED <<env, container, history, requests, linesRead, user_input, base,
                   lastCall, exitCode>>

(***************************************************************************)
(* Tool-call rounds of the completion driver (design specification 4.2,    *)
(* 4.4); the tools invoked are the plugin's.                               *)
(***************************************************************************)
\* the provider answers with a list of requested tool invocations
ProviderToolCalls(list) ==
    /\ pc = "AwaitingModel"
    /\ Len(history) + Len(list) <= MaxHistory
    /\ calls' = list
    /\ base' = Len(history)
    /\ pc' = "ExecutingTools"
    /\ UNCHANGED <<env, container, history, printed, requests, linesRead,
                   user_input, lastCall, exitCode>>

\* the requested calls taken from the end of the list
NextCall_Reversed(list, done) == list[Len(list) - done]

\* the requested call executed next, given how many results are in
NextCall(list, done) == list[done + 1]

Outcomes(tool) == IF tool = "list_blobs" THEN ListOutcomes ELSE ReadOutcomes

Invoke(call, cont, o) ==
    IF call.tool = "list_blobs" THEN list_blobs(cont, o)
    ELSE read_csv_blob(call.arg, cont, o)

\* whether the tool body met a failure (a raised exception or a missing blob)
BodyFailed(call, cont, o) ==
    IF call.tool = "list_blobs" THEN o = "list_raises"
    ELSE o # "ok" \/ call.arg \notin Range(cont)

\* the executor turns a failure raised by the callable into text
ToolText(ret) == IF ret.kind = "text" THEN ret.text ELSE "Error: " \o ret.text

ExecuteTool(o) ==
    /\ pc = "ExecutingTools"
    /\ LET call == NextCall(calls, Len(history) - base)
       IN /\ o \in Outcomes(call.tool)
          /\ history' = Append(history,
                 Entry("tool", call.tool, ToolText(Invoke(call, container, o))))
    /\ IF Len(history') - base = Len(calls)
       THEN pc' = "AwaitingModel" /\ requests' = requests + 1
       ELSE pc' = "ExecutingTools" /\ UNCHANGED requests
    /\ UNCHANGED <<env, container, printed, linesRead, user_input, calls, base,
                   lastCall, exitCode>>

Next ==
    \/ Startup
    \/ \E line \in Lines : ExitCommand(line)
    \/ \E line \in Lines : UserTurn(line)
    \/ InputClosed
    \/ \E text \in Answers : ProviderFinal(text)
    \/ \E msg \in ProviderErrors : ProviderFails(msg)
    \/ \E list \in CallLists(MaxHistory) : ProviderToolCalls(list)
    \/ \E o \in ListOutcomes \cup ReadOutcomes : ExecuteTool(o)

Spec == Init /\ [][Next]_vars

(***************************************************************************)
(* The plugin on its own: each tool applied to every container, blob name  *)
(* and backend outcome.                                                    *)
(***************************************************************************)
InitTools ==
    /\ env = [v \in EnvVars |-> "set"]
    /\ container \in Containers
    /\ pc = "plugin"
    /\ history = <<>>
    /\ printed = <<>>
    /\ requests = 0
    /\ linesRead = 0
    /\ user_input = ""
    /\ calls = <<>>
    /\ base = 0
    /\ lastCall = NoCall
    /\ exitCode = "running"

CallRecord(call, cont, o) ==
    [tool |-> call.tool, arg |-> call.arg, outcome |-> o,
     failed |-> BodyFailed(call, cont, o), ret |-> Invoke(call, cont, o)]

InvokeListBlobs(o) ==
    /\ pc = "plugin"
    /\ lastCall' = CallRecord([tool |-> "list_blobs", arg |-> ""], container, o)
    /\ UNCHANGED <<env, container, pc, history, printed, requests, linesRead,
                   user_input, calls, base, exitCode>>

InvokeReadCsvBlob(blob_name, o) ==
    /\ pc = "plugin"
    /\ lastCall' = CallRecord([tool |-> "read_csv_blob", arg |-> blob_name],
                              container, o)
    /\ UNCHANGED <<env, container, pc, history, printed, requests, linesRead,
                   user_input, calls, base, exitCode>>

NextTools ==
    \/ \E o \in ListOutcomes : InvokeListBlobs(o)
    \/ \E blob_name \in BlobNames, o \in ReadOutcomes : InvokeReadCsvBlob(blob_name, o)

SpecTools == InitTools /\ [][NextTools]_vars

(***************************************************************************)
(* Properties.                                                             *)
(***************************************************************************)
Last(seq) == seq[Len(seq)]

StartsWith(s, p) == Len(s) >= Len(p) /\ SubSeq(s, 1, Len(p)) = p

Contains(s, sub) ==
    \E i \in 1..(Len(s) - Len(sub) + 1) : SubSeq(s, i, i + Len(sub) - 1) = sub

CountRole(h, role) == Cardinality({i \in DOMAIN h : h[i].role = role})

Called == lastCall.tool # "none"

\* C1 (as stated): whenever the body of list_blobs or read_csv_blob fails,
\* the returned text begins with the exact prefix "Error:".
C1_ErrorColonPrefix ==
    (Called /\ lastCall.failed) => StartsWith(lastCall.ret.text, "Error:")

\* C1 (amended): whenever the body of list_blobs or read_csv_blob fails, the
\* returned text begins with "Error": "Error: Blob '" for a missing blob,
\* "Error reading blob: " for an exception inside read_csv_blob and
\* "Error listing blobs: " for an exception inside list_blobs.
C1_ErrorPrefixes ==
    (Called /\ lastCall.failed) =>
        /\ StartsWith(lastCall.ret.text, "Error")
        /\ IF lastCall.tool = "list_blobs"
           THEN StartsWith(lastCall.ret.text, "Error listing blobs: ")
           ELSE IF lastCall.outcome # "exists_raises"
                   /\ lastCall.arg \notin Range(container)
           THEN StartsWith(lastCall.ret.text, "Error: Blob '")
           ELSE StartsWith(lastCall.ret.text, "Error reading blob: ")

C1_Witness ==
    /\ lastCall.tool = "read_csv_blob"
    /\ lastCall.outcome = "download_raises"
    /\ lastCall.arg \in Range(container)
    /\ lastCall.failed
    /\ StartsWith(lastCall.ret.text, "Error reading blob: ")

\* C2: no failure raised inside a tool body escapes the tool: for every
\* storage outcome each invocation of list_blobs or read_csv_blob ends by
\* returning a text value.
C2_ToolAlwaysReturnsText ==
    Called => (lastCall.ret.kind = "text" /\ Len(lastCall.ret.text) > 0)

C2_Witness ==
    /\ lastCall.tool = "read_csv_blob"
    /\ lastCall.outcome = "parse_raises"
    /\ lastCall.arg \in Range(container)
    /\ lastCall.ret.kind = "text"

\* the lines printed by the except clause of the chat loop
ChatErrorPrinted(line) == StartsWith(line, "Error during chat: ")

AgentPrinted(line) == StartsWith(line, "Agent: ")

\* no Assistant entry follows the last User entry of h
LastUserUnanswered(h) ==
    \E i \in DOMAIN h :
        /\ h[i].role = "user"
        /\ \A j \in (i + 1)..Len(h) : h[j].role \notin {"user", "assistant"}

\* C3: when the request to the model provider fails during a user turn, one
\* error message is printed, the transcript (that turn's user message
\* included) is unchanged, and the loop is back at the prompt.
C3_FailedTurnKeepsTranscript ==
    [][ (/\ pc = "AwaitingModel"
         /\ pc' # "ExecutingTools"
         /\ ~(Len(printed') = Len(printed) + 1 /\ AgentPrinted(Last(printed'))))
        => /\ printed' = Append(printed, Last(printed'))
           /\ ChatErrorPrinted(Last(printed'))
           /\ history' = history
           /\ LastUserUnanswered(history')
           /\ pc' = "prompt"
           /\ exitCode' = "running" ]_vars

C3_Witness ==
    /\ pc = "prompt"
    /\ Len(printed) >= 3
    /\ ChatErrorPrinted(printed[2])
    /\ AgentPrinted(printed[3])
    /\ CountRole(history, "user") = 2

\* C4: the transcript is append-only: every step leaves it unchanged or
\* appends exactly one entry, the earlier transcript staying an unchanged
\* prefix of the current one.
C4_AppendOnly ==
    [][ \/ history' = history
        \/ /\ Len(history') = Len(history) + 1
           /\ SubSeq(history', 1, Len(history)) = history ]_vars

C4_Witness ==
    /\ CountRole(history, "user") >= 2
    /\ CountRole(history, "tool") >= 1
    /\ CountRole(history, "assistant") >= 1
    /\ \E i \in 1..Len(printed) : ChatErrorPrinted(printed[i])

UpperOf(c) ==
    CASE c = "e" -> "E" [] c = "x" -> "X" [] c = "i" -> "I" [] c = "t" -> "T"
      [] c = "q" -> "Q" [] c = "u" -> "U" [] OTHER -> c

\* s spells the word w, each letter in either case
SpellsInAnyCase(s, w) ==
    /\ Len(s) = Len(w)
    /\ \A i \in 1..Len(w) :
          SubSeq(s, i, i) \in {SubSeq(w, i, i), UpperOf(SubSeq(w, i, i))}

ExitWord(s) == SpellsInAnyCase(s, "exit") \/ SpellsInAnyCase(s, "quit")

\* C5: a line spelling "exit" or "quit" in any letter case ends the loop and
\* the process with exit code 0, without being appended to the transcript or
\* sent to the provider; every other line is appended as a User entry and
\* followed by a request to the provider.
C5_ExitOrUserTurn ==
    [][ linesRead' # linesRead =>
          IF ExitWord(user_input')
          THEN /\ pc' = "done"
               /\ exitCode' = "0"
               /\ history' = history
               /\ requests' = requests
          ELSE /\ history' = Append(history, Entry("user", "", user_input'))
               /\ requests' = requests + 1
               /\ pc' = "AwaitingModel"
               /\ exitCode' = "running" ]_vars

C5_Witness ==
    /\ pc = "done"
    /\ user_input = "Quit"
    /\ exitCode = "0"
    /\ \E i \in DOMAIN history : history[i] = Entry("user", "", "exits")

Missing(e, names) == \E v \in names : e[v] # "set"

StartupFailed ==
    /\ pc \in {"start", "ended"}
    /\ linesRead = 0
    /\ requests = 0
    /\ history = <<>>
    /\ (pc = "ended" => Len(printed) = 1)

\* C6 (as stated): if any of endpoint, deployment name, api key, api version,
\* storage account, account key, container name is missing, startup prints a
\* message and ends before any input is read or any request is sent.
C6_AnyRecognizedMissing ==
    Missing(env, EnvVars) => StartupFailed

\* C6 (amended): if any of the six values main() and the plugin read from
\* the environment (deployment name, endpoint, api key; storage account
\* name, account key, container name) is unset or empty, startup prints a
\* message and ends before any input is read or any request is sent.
C6_RequiredSixMissing ==
    Missing(env, {"AZURE_OPENAI_DEPLOYMENT_NAME", "AZURE_OPENAI_ENDPOINT",
                  "AZURE_OPENAI_API_KEY", "AZURE_STORAGE_ACCOUNT_NAME",
                  "AZURE_STORAGE_ACCOUNT_KEY", "AZURE_STORAGE_CONTAINER_NAME"})
        => StartupFailed

C6_Witness ==
    /\ env["AZURE_STORAGE_ACCOUNT_KEY"] = "empty"
    /\ \A v \in EnvVars \ {"AZURE_STORAGE_ACCOUNT_KEY"} : env[v] = "set"
    /\ pc = "ended"
    /\ StartsWith(printed[1], "Failed to initialize BlobStoragePlugin: ")

RECURSIVE TotalLen(_)
TotalLen(names) ==
    IF Len(names) = 0 THEN 0 ELSE Len(Head(names)) + TotalLen(Tail(names))

\* where the i-th name starts in the names joined by a two-character separator
StartOf(names, i) == 1 + TotalLen(SubSeq(names, 1, i - 1)) + 2 * (i - 1)

\* text is the names, in order, with ", " between neighbours
CommaJoined(text, names) ==
    /\ Len(text) = TotalLen(names) + 2 * (Len(names) - 1)
    /\ \A i \in 1..Len(names) :
          SubSeq(text, StartOf(names, i), StartOf(names, i) + Len(names[i]) - 1)
              = names[i]
    /\ \A i \in 1..(Len(names) - 1) :
          SubSeq(text, StartOf(names, i) + Len(names[i]), StartOf(names, i + 1) - 1)
              = ", "

ListedOk == lastCall.tool = "list_blobs" /\ lastCall.outcome = "ok"

\* C7 (as stated): list_blobs returns the names joined by ", " in listing
\* order, and returns "No blobs found." exactly when the listing succeeds and
\* the container is empty.
C7_NoBlobsIffEmpty ==
    lastCall.tool = "list_blobs" =>
        /\ (ListedOk /\ Len(container) > 0)
              => CommaJoined(lastCall.ret.text, container)
        /\ lastCall.ret.text = "No blobs found."
              <=> (ListedOk /\ Len(container) = 0)

\* C7 (amended): list_blobs returns the names joined by ", " in listing
\* order when the listing succeeds and the container is not empty, and
\* returns "No blobs found." whenever the listing succeeds and the container
\* is empty; a failed listing never returns that text.
C7_JoinedOrNoBlobs ==
    lastCall.tool = "list_blobs" =>
        /\ (ListedOk /\ Len(container) > 0)
              => CommaJoined(lastCall.ret.text, container)
        /\ (ListedOk /\ container = <<"a.csv", "b.csv">>)
              => lastCall.ret.text = "a.csv, b.csv"
        /\ (ListedOk /\ Len(container) = 0)
              => lastCall.ret.text = "No blobs found."
        /\ ~ListedOk => lastCall.ret.text # "No blobs found."

C7_Witness ==
    /\ ListedOk
    /\ container = <<"b.csv", "a.csv">>
    /\ lastCall.ret.text = "b.csv, a.csv"

C9_ToolResultsInRequestOrder ==
    Len(calls) > 0 =>
        /\ Len(history) - base \in 0..Len(calls)
        /\ \A i \in 1..(Len(history) - base) :
              /\ history[base + i].role = "tool"
              /\ history[base + i].name = calls[i].tool
        /\ pc = "ExecutingTools" => Len(history) - base < Len(calls)
        /\ pc = "AwaitingModel" => Len(history) - base = Len(calls)

C9_Witness ==
    /\ pc = "AwaitingModel"
    /\ Len(calls) = 2
    /\ calls[1].tool = "list_blobs"
    /\ calls[2].tool = "read_csv_blob"
    /\ history[Len(history) - 1].name = "list_blobs"
    /\ history[Len(history)].name = "read_csv_blob"

\* C10: a turn resolved with a final answer appends exactly one Assistant
\* entry carrying the answer, after the turn's User entry and before the
\* next line is read; a failed turn appends none and leaves its User entry
\* unanswered; Assistant entries never outnumber User entries.
C10_OneAnswerPerResolvedTurn ==
    /\ [](CountRole(history, "assistant") <= CountRole(history, "user"))
    /\ [][ /\ (Len(printed') > Len(printed) /\ AgentPrinted(Last(printed')))
              => /\ LastUserUnanswered(history)
                 /\ \E text \in Answers :
                       /\ Last(printed') = "Agent: " \o text
                       /\ history' = Append(history, Entry("assistant", "", text))
                 /\ linesRead' = linesRead
                 /\ pc' = "prompt"
           /\ (Len(printed') > Len(printed) /\ ChatErrorPrinted(Last(printed')))
              => /\ CountRole(history', "assistant") = CountRole(history, "assistant")
                 /\ LastUserUnanswered(history')
           /\ linesRead' # linesRead => pc = "prompt" ]_vars

C10_Witness ==
    /\ pc = "AwaitingModel"
    /\ CountRole(history, "user") = 2
    /\ CountRole(history, "assistant") = 0
    /\ LastUserUnanswered(history)
    /\ ChatErrorPrinted(Last(printed))

====
